---- MODULE Spec2Model ----
(***************************************************************************)
(* A model of spl_scraper.py: the region catalog loader (get_regions), the *)
(* city fetcher (get_cities), the district fetcher (get_districts and      *)
(* get_and_merge_districts), the exporter (save_to_excel) and the entry    *)
(* point (main).  Python strings are sequences of one-character strings,   *)
(* Python dicts are functions (or, where the insertion order is observed,  *)
(* sequences of key/value records).                                        *)
(***************************************************************************)
EXTENDS Integers, Sequences, FiniteSets, TLC

VARIABLES
    \* get_regions
    gr_pc,        \* "start", "loop", "returned", "raised"
    gr_exists,    \* html_path.exists()
    gr_options,   \* soup.find_all('option') of the snippet, in document order
    gr_i,         \* number of options the for loop has consumed
    gr_regions,   \* the local dict regions
    gr_logged,    \* number of _logger.exception calls
    gr_raised     \* the exception that left get_regions, "none" when none

VARIABLES
    \* get_cities, and the use main makes of its result
    gc_pc,        \* "start", "parse", "loop", "returned", "iterating", "raised"
    gc_regions,   \* the parameter regions
    gc_arabic,    \* the parameter use_arabic
    gc_resp,      \* what the listing endpoint answers
    gc_i,         \* number of entries of data the for loop has consumed
    gc_mapping,   \* the local region_city_mapping
    gc_result,    \* the value get_cities returned
    gc_warned,    \* number of _logger.warning calls
    gc_raised     \* the exception that left get_cities or main, "none" when none

VARIABLES
    \* get_and_merge_districts and the get_districts calls it gathers
    gd_pc,        \* "loop", "gather", "assign", "returned", "raised"
    gd_mapping,   \* the parameter region_city_mapping, mutated in place
    gd_r,         \* position of the for loop of line 170 (1-based)
    gd_c,         \* number of cities the for loop of line 177 has consumed
    gd_tasks,     \* every get_districts call launched so far, in launch order
    gd_sessions,  \* every ClientSession created so far: TRUE while open
    gd_merged,    \* the local merged_districts
    gd_exc        \* the exception gather was completed with, "none" when none

VARIABLES
    \* save_to_excel
    se_pc,        \* "open", "region", "city", "district", "saved", "raised"
    se_save_path, \* the parameter save_path
    se_json_source, \* the parameter json_source
    se_doc,       \* region_data_citi_final, the document read from json_source
    se_r,         \* idx of the for loop of line 140
    se_sorted,    \* sorted_cities
    se_count,     \* count, the row being written
    se_d,         \* number of districts the for loop of line 155 has consumed
    se_sheets,    \* the workbook's sheets, in workbook order
    se_lens,      \* district_column_lens
    se_citymax    \* city_column_max_len, in tenths

VARIABLES
    \* main and the directory it writes to
    mn_pc,        \* "start", "fetched", "written", "saving", "done", "raised"
    mn_res_data,  \* res_data
    fs            \* the files of the directory: path -> content

gr_vars == <<gr_pc, gr_exists, gr_options, gr_i, gr_regions, gr_logged, gr_raised>>

gc_vars == <<gc_pc, gc_regions, gc_arabic, gc_resp, gc_i, gc_mapping, gc_result,
             gc_warned, gc_raised>>

gd_vars == <<gd_pc, gd_mapping, gd_r, gd_c, gd_tasks, gd_sessions, gd_merged, gd_exc>>

se_vars == <<se_pc, se_save_path, se_json_source, se_doc, se_r, se_sorted, se_count, se_d,
             se_sheets, se_lens, se_citymax>>

mn_vars == <<mn_pc, mn_res_data>>

vars == <<gr_vars, gc_vars, gd_vars, se_vars, mn_vars, fs>>

\* what each operation leaves alone: the state of the other operations
gr_others == <<gc_vars, gd_vars, se_vars, mn_vars, fs>>

gc_others == <<gr_vars, gd_vars, se_vars, mn_vars, fs>>

gd_others == <<gr_vars, gc_vars, se_vars, mn_vars, fs>>

\* save_to_excel reads and writes files: each of its steps says what it does to fs
se_others == <<gr_vars, gc_vars, gd_vars, mn_vars>>

mn_others == <<gr_vars, gc_vars, gd_vars>>

----------------------------------------------------------------------------
(* Bounds *)

MaxOptions == 2

MaxEntries == 3

\* cities in the mapping handed to get_and_merge_districts, over all regions
MaxCities == 3

\* cities in the document handed to save_to_excel, over all regions
MaxDocCities == 3

----------------------------------------------------------------------------
(* Python helpers *)

RECURSIVE SeqsUpTo(_, _)
SeqsUpTo(S, n) ==
    IF n = 0 THEN {<<>>}
    ELSE LET shorter == SeqsUpTo(S, n - 1)
         IN  shorter \cup {Append(s, x) : s \in {t \in shorter : Len(t) = n - 1}, x \in S}

Digits == <<"0", "1", "2", "3", "4", "5", "6", "7", "8", "9">>

IsDigit(c) == \E d \in 1..10 : Digits[d] = c

DigitVal(c) == (CHOOSE d \in 1..10 : Digits[d] = c) - 1

IsSpace(c) == c = " "

RECURSIVE LStrip(_)
LStrip(s) == IF s # <<>> /\ IsSpace(Head(s)) THEN LStrip(Tail(s)) ELSE s

RECURSIVE RStrip(_)
RStrip(s) ==
    IF s # <<>> /\ IsSpace(s[Len(s)]) THEN RStrip(SubSeq(s, 1, Len(s) - 1)) ELSE s

\* str.strip()
Strip(s) == RStrip(LStrip(s))

RECURSIVE DigitsVal(_)
DigitsVal(s) ==
    IF s = <<>> THEN 0 ELSE 10 * DigitsVal(SubSeq(s, 1, Len(s) - 1)) + DigitVal(s[Len(s)])

\* the part of the literal after an optional sign
Unsigned(s) == IF s # <<>> /\ Head(s) \in {"+", "-"} THEN Tail(s) ELSE s

\* int(s) raises ValueError unless s, stripped, is an optionally signed run of digits
IntParses(s) ==
    LET u == Unsigned(Strip(s))
    IN  u # <<>> /\ \A k \in 1..Len(u) : IsDigit(u[k])

IntOf(s) ==
    LET t == Strip(s)
        v == DigitsVal(Unsigned(t))
    IN  IF t # <<>> /\ Head(t) = "-" THEN 0 - v ELSE v

RECURSIVE NatToStr(_)
NatToStr(n) ==
    IF n < 10 THEN <<Digits[n + 1]>> ELSE Append(NatToStr(n \div 10), Digits[(n % 10) + 1])

\* str(n) for an int n
IntToStr(n) == IF n < 0 THEN <<"-">> \o NatToStr(0 - n) ELSE NatToStr(n)

\* d[key] = value on a dict held as a function
DictSet(d, key, value) ==
    [k \in DOMAIN d \cup {key} |-> IF k = key THEN value ELSE d[k]]

EmptyDict == [k \in {} |-> <<>>]

----------------------------------------------------------------------------
(* get_regions(use_arabic=True) *)

NoAttr == [has |-> FALSE, s |-> <<>>]

Attr(s) == [has |-> TRUE, s |-> s]

\* the id attributes an option of the snippet may carry (or lack)
IdAttrs ==
    {NoAttr, Attr(<<>>), Attr(<<"1">>), Attr(<<"0", "1">>), Attr(<<"2">>),
     Attr(<<"1", "2">>), Attr(<<"x">>), Attr(<<"1", "x">>)}

OptionTexts == {<<>>, <<"a">>, <<" ", "b", " ">>}

Options == [id : IdAttrs, text : OptionTexts]

GrInit ==
    /\ gr_pc = "start"
    /\ gr_exists \in BOOLEAN
    /\ gr_options \in SeqsUpTo(Options, MaxOptions)
    /\ gr_i = 0
    /\ gr_regions = EmptyDict
    /\ gr_logged = 0
    /\ gr_raised = "none"

\* lines 60-69: the snippet is read when it exists and parsed when non-empty
GrOpen ==
    /\ gr_pc = "start"
    /\ gr_pc' = IF gr_exists THEN "loop" ELSE "returned"
    /\ UNCHANGED <<gr_exists, gr_options, gr_i, gr_regions, gr_logged, gr_raised>>
    /\ UNCHANGED gr_others

\* the outcome of int(option['id']): Tag.__getitem__ raises KeyError when the
\* attribute is absent, int raises ValueError when the text is no integer
IdOutcome(option) ==
    IF ~option.id.has THEN "KeyError"
    ELSE IF ~IntParses(option.id.s) THEN "ValueError"
    ELSE "ok"

\* the except clause of line 73 names the exceptions the loop survives
Caught(outcome) == outcome = "ValueError"

\* lines 70-76: one iteration of the for loop
GrOption ==
    /\ gr_pc = "loop"
    /\ gr_i < Len(gr_options)
    /\ LET option == gr_options[gr_i + 1]
           outcome == IdOutcome(option)
       IN  /\ gr_i' = gr_i + 1
           /\ IF outcome = "ok"
              THEN /\ gr_regions' = DictSet(gr_regions, IntToStr(IntOf(option.id.s)),
                                            Strip(option.text))
                   /\ UNCHANGED <<gr_pc, gr_logged, gr_raised>>
              ELSE IF Caught(outcome)
              THEN /\ gr_logged' = gr_logged + 1
                   /\ UNCHANGED <<gr_pc, gr_regions, gr_raised>>
              ELSE /\ gr_pc' = "raised"
                   /\ gr_raised' = outcome
                   /\ UNCHANGED <<gr_regions, gr_logged>>
    /\ UNCHANGED <<gr_exists, gr_options>>
    /\ UNCHANGED gr_others

\* line 78
GrReturn ==
    /\ gr_pc = "loop"
    /\ gr_i = Len(gr_options)
    /\ gr_pc' = "returned"
    /\ UNCHANGED <<gr_exists, gr_options, gr_i, gr_regions, gr_logged, gr_raised>>
    /\ UNCHANGED gr_others

GrNext == GrOpen \/ GrOption \/ GrReturn

\* an option is well-formed when its id attribute parses as an integer
WellFormed(option) == option.id.has /\ IntParses(option.id.s)

NWellFormed == Cardinality({k \in 1..Len(gr_options) : WellFormed(gr_options[k])})

NMalformed == Cardinality({k \in 1..Len(gr_options) : ~WellFormed(gr_options[k])})

\* C6: in parse mode, on a snippet of N well-formed and M malformed options,
\* get_regions does not raise, returns exactly N entries, each the identifier
\* of a well-formed option mapped to its stripped text, and logs M skips.
C6_ParseCounts ==
    (gr_exists /\ gr_pc \in {"loop", "returned", "raised"}) =>
        /\ gr_pc # "raised"
        /\ gr_pc = "returned" =>
              /\ Cardinality(DOMAIN gr_regions) = NWellFormed
              /\ gr_logged = NMalformed
              /\ \A key \in DOMAIN gr_regions :
                    \E k \in 1..Len(gr_options) :
                        /\ WellFormed(gr_options[k])
                        /\ key = IntToStr(IntOf(gr_options[k].id.s))
                        /\ gr_regions[key] = Strip(gr_options[k].text)

\* get_regions has not been called
GrIdle ==
    /\ gr_pc = "idle"
    /\ gr_exists = FALSE
    /\ gr_options = <<>>
    /\ gr_i = 0
    /\ gr_regions = EmptyDict
    /\ gr_logged = 0
    /\ gr_raised = "none"

----------------------------------------------------------------------------
(* get_cities(regions, use_arabic) *)

\* Python values that serve as dict keys and identifiers: an int is never
\* equal to a str
PyInt(n) == [t |-> "int", n |-> n, s |-> <<>>]

PyStr(s) == [t |-> "str", n |-> 0, s |-> s]

\* str(x)
Str(x) == IF x.t = "int" THEN PyStr(IntToStr(x.n)) ELSE x

\* catalogs as get_regions builds them: str keys, display names
Catalogs ==
    {EmptyDict,
     [k \in {PyStr(<<"1">>)} |-> "A"],
     [k \in {PyStr(<<"1">>), PyStr(<<"2">>)} |-> IF k = PyStr(<<"1">>) THEN "A" ELSE "B"],
     [k \in {PyStr(<<"1">>), PyStr(<<"2">>)} |-> "A"]}

EmirateRefs == {PyStr(<<"1">>), PyStr(<<"2">>), PyInt(1)}

ArabicNames == <<"ar1", "ar2">>

EnglishNames == <<"en1", "en2">>

\* the entries of the listing endpoint's answer
Entries ==
    {[fkEmirateID |-> f, pkCityID |-> PyInt(i), ArabicName |-> ArabicNames[i],
      EnglishName |-> EnglishNames[i]] : f \in EmirateRefs, i \in 1..2}

Response(kind, data) == [kind |-> kind, data |-> data]

Responses ==
    {Response("fail", <<>>), Response("empty", <<>>), Response("garbage", <<>>)}
    \cup {Response("json", d) : d \in SeqsUpTo(Entries, MaxEntries)}

None == [isNone |-> TRUE, mapping |-> <<>>]

Some(m) == [isNone |-> FALSE, mapping |-> m]

GcInit ==
    /\ gc_pc = "start"
    /\ gc_regions \in Catalogs
    /\ gc_arabic \in BOOLEAN
    /\ gc_resp \in Responses
    /\ gc_i = 0
    /\ gc_mapping = <<>>
    /\ gc_result = None
    /\ gc_warned = 0
    /\ gc_raised = "none"

\* lines 106-113: the request; a transport failure propagates, an empty body
\* skips the if block and the function falls off its end
GcPost ==
    /\ gc_pc = "start"
    /\ IF gc_resp.kind = "fail"
       THEN gc_pc' = "raised" /\ gc_raised' = "ClientError" /\ UNCHANGED gc_result
       ELSE IF gc_resp.kind = "empty"
       THEN gc_pc' = "returned" /\ gc_result' = None /\ UNCHANGED gc_raised
       ELSE gc_pc' = "parse" /\ UNCHANGED <<gc_result, gc_raised>>
    /\ UNCHANGED <<gc_regions, gc_arabic, gc_resp, gc_i, gc_mapping, gc_warned>>
    /\ UNCHANGED gc_others

\* line 114: json.loads(text)
GcParse ==
    /\ gc_pc = "parse"
    /\ IF gc_resp.kind = "garbage"
       THEN gc_pc' = "raised" /\ gc_raised' = "JSONDecodeError"
       ELSE gc_pc' = "loop" /\ UNCHANGED gc_raised
    /\ UNCHANGED <<gc_regions, gc_arabic, gc_resp, gc_i, gc_mapping, gc_result, gc_warned>>
    /\ UNCHANGED gc_others

\* line 117: city['fkEmirateID'] in regions
InRegions(ref, regions) == ref \in DOMAIN regions

\* lines 119-123
CityData(city, use_arabic) ==
    [name |-> IF use_arabic THEN city.ArabicName ELSE city.EnglishName,
     id |-> city.pkCityID,
     districts |-> <<>>]

HasRegion(mapping, region) == \E k \in 1..Len(mapping) : mapping[k].region = region

RegionIndex(mapping, region) == CHOOSE k \in 1..Len(mapping) : mapping[k].region = region

\* a slip in lines 124-125: the city is put in front of its region's list
AddCityInFront(mapping, region, city_data) ==
    IF HasRegion(mapping, region)
    THEN [mapping EXCEPT ![RegionIndex(mapping, region)].cities = <<city_data>> \o @]
    ELSE Append(mapping, [region |-> region, cities |-> <<city_data>>])

\* lines 124-127 on the insertion-ordered dict region_city_mapping
AddCity(mapping, region, city_data) ==
    IF HasRegion(mapping, region)
    THEN [mapping EXCEPT ![RegionIndex(mapping, region)].cities = Append(@, city_data)]
    ELSE Append(mapping, [region |-> region, cities |-> <<city_data>>])

\* lines 116-129: one iteration of the for loop
GcCity ==
    /\ gc_pc = "loop"
    /\ gc_i < Len(gc_resp.data)
    /\ LET city == gc_resp.data[gc_i + 1]
       IN  /\ gc_i' = gc_i + 1
           /\ IF InRegions(city.fkEmirateID, gc_regions)
              THEN /\ gc_mapping' = AddCity(gc_mapping, gc_regions[city.fkEmirateID],
                                           CityData(city, gc_arabic))
                   /\ UNCHANGED gc_warned
              ELSE /\ gc_warned' = gc_warned + 1
                   /\ UNCHANGED gc_mapping
    /\ UNCHANGED <<gc_pc, gc_regions, gc_arabic, gc_resp, gc_result, gc_raised>>
    /\ UNCHANGED gc_others

\* line 130
GcReturn ==
    /\ gc_pc = "loop"
    /\ gc_i = Len(gc_resp.data)
    /\ gc_pc' = "returned"
    /\ gc_result' = Some(gc_mapping)
    /\ UNCHANGED <<gc_regions, gc_arabic, gc_resp, gc_i, gc_mapping, gc_warned, gc_raised>>
    /\ UNCHANGED gc_others

\* lines 186-187 and 170: main hands the result to get_and_merge_districts,
\* whose first step is region_city_mapping.items()
MainIterate ==
    /\ gc_pc = "returned"
    /\ IF gc_result.isNone
       THEN gc_pc' = "raised" /\ gc_raised' = "AttributeError"
       ELSE gc_pc' = "iterating" /\ UNCHANGED gc_raised
    /\ UNCHANGED <<gc_regions, gc_arabic, gc_resp, gc_i, gc_mapping, gc_result, gc_warned>>
    /\ UNCHANGED gc_others

GcNext == GcPost \/ GcParse \/ GcCity \/ GcReturn \/ MainIterate

\* the entries of data, in arrival order, that refer to a key of the catalog
\* whose display name is region, and those that refer to no key
RECURSIVE EntriesOf(_, _)
EntriesOf(data, region) ==
    IF data = <<>> THEN <<>>
    ELSE LET e == Head(data)
             rest == EntriesOf(Tail(data), region)
         IN  IF e.fkEmirateID \in DOMAIN gc_regions /\ gc_regions[e.fkEmirateID] = region
             THEN <<e>> \o rest ELSE rest

Unreferenced(data) ==
    {k \in 1..Len(data) : data[k].fkEmirateID \notin DOMAIN gc_regions}

RegionNames == {gc_regions[k] : k \in DOMAIN gc_regions}

\* C4: the mapping get_cities returns holds exactly the entries whose
\* fkEmirateID is a key of the catalog, each under its region's display name
\* and in arrival order within the region; every other entry is in no
\* region's list and causes one warning.
C4_GroupedByRegion ==
    (gc_pc = "returned" /\ gc_resp.kind = "json") =>
        LET m == gc_result.mapping
        IN  /\ ~gc_result.isNone
            /\ \A j, k \in 1..Len(m) : m[j].region = m[k].region => j = k
            /\ {m[j].region : j \in 1..Len(m)}
                  = {r \in RegionNames : EntriesOf(gc_resp.data, r) # <<>>}
            /\ \A j \in 1..Len(m) :
                  LET es == EntriesOf(gc_resp.data, m[j].region)
                  IN  /\ Len(m[j].cities) = Len(es)
                      /\ \A k \in 1..Len(es) :
                            /\ m[j].cities[k].id = es[k].pkCityID
                            /\ m[j].cities[k].name =
                                 (IF gc_arabic THEN es[k].ArabicName ELSE es[k].EnglishName)
                            /\ m[j].cities[k].districts = <<>>
            /\ gc_warned = Cardinality(Unreferenced(gc_resp.data))

\* one region is returned with two cities, and the entry that arrived between
\* them was dropped with a warning
C4_Witness ==
    /\ gc_pc = "returned"
    /\ gc_resp.kind = "json"
    /\ Len(gc_resp.data) = 3
    /\ gc_resp.data[1].fkEmirateID \in DOMAIN gc_regions
    /\ gc_resp.data[2].fkEmirateID \notin DOMAIN gc_regions
    /\ gc_resp.data[1].pkCityID # gc_resp.data[3].pkCityID
    /\ gc_warned = 1
    /\ Len(gc_result.mapping) = 1
    /\ Len(gc_result.mapping[1].cities) = 2

\* C5: whenever the listing endpoint's response arrives, an empty body
\* included, get_cities returns a mapping and the next stage iterates it
\* without error.
C5_ReturnsMapping ==
    gc_resp.kind # "fail" =>
        /\ gc_pc # "raised"
        /\ gc_pc \in {"returned", "iterating"} => ~gc_result.isNone

\* get_cities has not been called
GcIdle ==
    /\ gc_pc = "idle"
    /\ gc_regions = EmptyDict
    /\ gc_arabic = TRUE
    /\ gc_resp = Response("fail", <<>>)
    /\ gc_i = 0
    /\ gc_mapping = <<>>
    /\ gc_result = None
    /\ gc_warned = 0
    /\ gc_raised = "none"

----------------------------------------------------------------------------
(* get_districts(city_id) and get_and_merge_districts(region_city_mapping) *)

RegionLabels == <<"A", "B", "C", "D", "E", "F">>

\* the ways of splitting n cities over regions of at least one city each, as
\* get_cities groups them: sequences of region sizes
RECURSIVE Splits(_)
Splits(n) ==
    IF n = 0 THEN {<<>>}
    ELSE UNION {{<<k>> \o rest : rest \in Splits(n - k)} : k \in 1..n}

RECURSIVE SumSeq(_)
SumSeq(s) == IF s = <<>> THEN 0 ELSE Head(s) + SumSeq(Tail(s))

\* pkCityID as the listing endpoint delivers it: a JSON number or a JSON string
CityId(kind, n) == IF kind = "int" THEN PyInt(n) ELSE PyStr(IntToStr(n))

\* the mapping get_cities returns for a split: primary keys are distinct
MappingOf(sizes, kind) ==
    [r \in 1..Len(sizes) |->
        [region |-> RegionLabels[r],
         cities |-> [c \in 1..sizes[r] |->
                        [name |-> "city",
                         id |-> CityId(kind, SumSeq(SubSeq(sizes, 1, r - 1)) + c),
                         districts |-> <<>>]]]]

Mappings ==
    {MappingOf(sizes, kind) :
        sizes \in UNION {Splits(n) : n \in 0..MaxCities}, kind \in {"int", "str"}}

District(k) ==
    [ArabicName |-> <<"d1", "d2">>[k], EnglishName |-> <<"e1", "e2">>[k]]

\* what the district endpoint answers to one request
DistrictResponses ==
    {Response("fail", <<>>), Response("garbage", <<>>), Response("json", <<>>),
     Response("json", <<District(2), District(1)>>)}

NoResponse == Response("none", <<>>)

GdInit ==
    /\ gd_pc = "loop"
    /\ gd_mapping \in Mappings
    /\ gd_r = 1
    /\ gd_c = 0
    /\ gd_tasks = <<>>
    /\ gd_sessions = <<>>
    /\ gd_merged = EmptyDict
    /\ gd_exc = "none"

InFlight(task) == task.st \in {"scheduled", "session", "posted"}

\* lines 171-172: one coroutine per city of the region, all handed to gather,
\* which schedules each as a task
GdLaunch ==
    /\ gd_pc = "loop"
    /\ gd_r <= Len(gd_mapping)
    /\ gd_tasks' = gd_tasks \o
          [c \in 1..Len(gd_mapping[gd_r].cities) |->
              [region |-> gd_r, city |-> c, city_id |-> gd_mapping[gd_r].cities[c].id,
               st |-> "scheduled", sid |-> 0, resp |-> NoResponse, result |-> EmptyDict]]
    /\ gd_pc' = "gather"
    /\ UNCHANGED <<gd_mapping, gd_r, gd_c, gd_sessions, gd_merged, gd_exc>>
    /\ UNCHANGED gd_others

\* line 82: async with aiohttp.ClientSession() as session
GdOpenSession(k) ==
    /\ gd_tasks[k].st = "scheduled"
    /\ gd_sessions' = Append(gd_sessions, TRUE)
    /\ gd_tasks' = [gd_tasks EXCEPT ![k].st = "session", ![k].sid = Len(gd_sessions) + 1]
    /\ UNCHANGED <<gd_pc, gd_mapping, gd_r, gd_c, gd_merged, gd_exc>>
    /\ UNCHANGED gd_others

\* lines 83-87: session.post(...) on the session of line 82
GdPost(k) ==
    /\ gd_tasks[k].st = "session"
    /\ gd_tasks' = [gd_tasks EXCEPT ![k].st = "posted"]
    /\ UNCHANGED <<gd_pc, gd_mapping, gd_r, gd_c, gd_sessions, gd_merged, gd_exc>>
    /\ UNCHANGED gd_others

\* line 93: the list comprehension over res
RECURSIVE DistrictNames(_, _)
DistrictNames(res, use_arabic) ==
    IF res = <<>> THEN <<>>
    ELSE <<IF use_arabic THEN Head(res).ArabicName ELSE Head(res).EnglishName>>
         \o DistrictNames(Tail(res), use_arabic)

\* lines 91-94: the dict get_districts returns
DistrictsResult(city_id, res, use_arabic) ==
    IF res # <<>>
    THEN [key \in {Str(city_id)} |-> DistrictNames(res, use_arabic)]
    ELSE EmptyDict

\* a slip in line 82: the session is created without async with and never closed
LeaveSessionOpen(sessions, sid) == sessions

\* leaving the async with block of line 82, by return or by exception
CloseSession(sessions, sid) == [sessions EXCEPT ![sid] = FALSE]

\* lines 87-94: the response arrives (or the transport fails); the body is
\* parsed; the session is left
GdRespond(k) ==
    /\ gd_tasks[k].st = "posted"
    /\ \E resp \in DistrictResponses :
          /\ gd_tasks' =
                [gd_tasks EXCEPT
                    ![k].resp = resp,
                    ![k].st = IF resp.kind = "json" THEN "done" ELSE "failed",
                    ![k].result = IF resp.kind = "json"
                                  THEN DistrictsResult(gd_tasks[k].city_id, resp.data, TRUE)
                                  ELSE EmptyDict]
          /\ gd_exc' =
                IF resp.kind = "json" \/ gd_exc # "none" \/ gd_tasks[k].region # gd_r
                     \/ gd_pc # "gather"
                THEN gd_exc
                ELSE IF resp.kind = "fail" THEN "ClientError" ELSE "JSONDecodeError"
    /\ gd_sessions' = CloseSession(gd_sessions, gd_tasks[k].sid)
    /\ UNCHANGED <<gd_pc, gd_mapping, gd_r, gd_c, gd_merged>>
    /\ UNCHANGED gd_others

RegionTasks(tasks, r) == {k \in 1..Len(tasks) : tasks[k].region = r}

\* gather with return_exceptions=False completes normally once some awaitable
\* has completed (the condition of asyncio.wait(FIRST_COMPLETED))
AnyDone(tasks, r) == \E k \in RegionTasks(tasks, r) : tasks[k].st = "done"

\* line 172: gather completes normally once every awaitable has
AllDone(tasks, r) == \A k \in RegionTasks(tasks, r) : tasks[k].st = "done"

\* d1 | d2 on dicts held as functions
DictUpdate(d1, d2) ==
    [k \in DOMAIN d1 \cup DOMAIN d2 |-> IF k \in DOMAIN d2 THEN d2[k] ELSE d1[k]]

\* lines 173-175: the dict comprehension over the gathered results, in order
RECURSIVE MergedDistricts(_)
MergedDistricts(results) ==
    IF results = <<>> THEN EmptyDict
    ELSE DictUpdate(MergedDistricts(SubSeq(results, 1, Len(results) - 1)),
                    results[Len(results)])

\* the results of the region's calls, in the order of the tasks list
RECURSIVE GatherResults(_, _)
GatherResults(tasks, r) ==
    IF tasks = <<>> THEN <<>>
    ELSE (IF Head(tasks).region = r THEN <<Head(tasks).result>> ELSE <<>>)
         \o GatherResults(Tail(tasks), r)

\* lines 172-175: the await of gather resumes with every result
GdJoin ==
    /\ gd_pc = "gather"
    /\ gd_exc = "none"
    /\ AllDone(gd_tasks, gd_r)
    /\ gd_merged' = MergedDistricts(GatherResults(gd_tasks, gd_r))
    /\ gd_c' = 0
    /\ IF Len(gd_mapping[gd_r].cities) = 0
       THEN gd_pc' = "loop" /\ gd_r' = gd_r + 1
       ELSE gd_pc' = "assign" /\ UNCHANGED gd_r
    /\ UNCHANGED <<gd_mapping, gd_tasks, gd_sessions, gd_exc>>
    /\ UNCHANGED gd_others

\* line 172: the await of gather resumes with the first exception, which
\* leaves get_and_merge_districts
GdPropagate ==
    /\ gd_pc = "gather"
    /\ gd_exc # "none"
    /\ gd_pc' = "raised"
    /\ UNCHANGED <<gd_mapping, gd_r, gd_c, gd_tasks, gd_sessions, gd_merged, gd_exc>>
    /\ UNCHANGED gd_others

\* dict.get(key, default)
DictGet(d, key, default) == IF key \in DOMAIN d THEN d[key] ELSE default

\* lines 177-178: one iteration of the for loop; after the last one the loop
\* of line 170 moves on
GdAssign ==
    /\ gd_pc = "assign"
    /\ gd_c < Len(gd_mapping[gd_r].cities)
    /\ gd_mapping' =
          [gd_mapping EXCEPT ![gd_r].cities[gd_c + 1].districts =
              DictGet(gd_merged, gd_mapping[gd_r].cities[gd_c + 1].id, <<>>)]
    /\ IF gd_c + 1 = Len(gd_mapping[gd_r].cities)
       THEN gd_pc' = "loop" /\ gd_r' = gd_r + 1 /\ gd_c' = 0
       ELSE gd_c' = gd_c + 1 /\ UNCHANGED <<gd_pc, gd_r>>
    /\ UNCHANGED <<gd_tasks, gd_sessions, gd_merged, gd_exc>>
    /\ UNCHANGED gd_others

\* line 180
GdReturn ==
    /\ gd_pc = "loop"
    /\ gd_r > Len(gd_mapping)
    /\ gd_pc' = "returned"
    /\ UNCHANGED <<gd_mapping, gd_r, gd_c, gd_tasks, gd_sessions, gd_merged, gd_exc>>
    /\ UNCHANGED gd_others

\* line 200: asyncio.run cancels the tasks still pending once main has
\* raised; CancelledError leaves the async with block of a started call
GdCancel(k) ==
    /\ gd_pc = "raised"
    /\ InFlight(gd_tasks[k])
    /\ gd_tasks' = [gd_tasks EXCEPT ![k].st = "cancelled"]
    /\ gd_sessions' = IF gd_tasks[k].sid = 0 THEN gd_sessions
                      ELSE CloseSession(gd_sessions, gd_tasks[k].sid)
    /\ UNCHANGED <<gd_pc, gd_mapping, gd_r, gd_c, gd_merged, gd_exc>>
    /\ UNCHANGED gd_others

\* the event loop runs one step of one of the calls
GdOpened == \E k \in 1..Len(gd_tasks) : GdOpenSession(k)

GdPosted == \E k \in 1..Len(gd_tasks) : GdPost(k)

GdResponded == \E k \in 1..Len(gd_tasks) : GdRespond(k)

GdCancelled == \E k \in 1..Len(gd_tasks) : GdCancel(k)

GdNext ==
    \/ GdLaunch
    \/ GdOpened
    \/ GdPosted
    \/ GdResponded
    \/ GdJoin
    \/ GdPropagate
    \/ GdAssign
    \/ GdReturn
    \/ GdCancelled

\* the call made for city c of region r
TaskOf(r, c) ==
    CHOOSE k \in 1..Len(gd_tasks) : gd_tasks[k].region = r /\ gd_tasks[k].city = c

\* the district names a call's response carried, in response order; none when
\* the response carried no data or never arrived
FetchedNames(task) ==
    IF task.resp.kind = "json"
    THEN [i \in 1..Len(task.resp.data) |-> task.resp.data[i].ArabicName]
    ELSE <<>>

\* C1: after get_and_merge_districts returns, every city's districts are the
\* names returned by the get_districts call made for that city's id, in
\* response order, and empty when that call returned no data.
C1_DistrictsOfOwnFetch ==
    gd_pc = "returned" =>
        \A r \in 1..Len(gd_mapping) : \A c \in 1..Len(gd_mapping[r].cities) :
            gd_mapping[r].cities[c].districts = FetchedNames(gd_tasks[TaskOf(r, c)])

\* C3: a district fetch that fails or returns nothing raises no error:
\* get_and_merge_districts completes, that city ends with no districts and
\* every other city with its own.
C3_FailedFetchIsEmpty ==
    /\ gd_exc = "none"
    /\ gd_pc # "raised"
    /\ gd_pc = "returned" =>
          \A k \in 1..Len(gd_tasks) :
              gd_mapping[gd_tasks[k].region].cities[gd_tasks[k].city].districts
                  = (IF gd_tasks[k].resp.kind = "json" /\ gd_tasks[k].resp.data # <<>>
                     THEN FetchedNames(gd_tasks[k]) ELSE <<>>)

NoneInFlight == \A k \in 1..Len(gd_tasks) : ~InFlight(gd_tasks[k])

\* the calls added by a step are one per city of the current region, none started
LaunchedTogether ==
    /\ Len(gd_tasks') = Len(gd_tasks) + Len(gd_mapping[gd_r].cities)
    /\ \A c \in 1..Len(gd_mapping[gd_r].cities) :
          LET t == gd_tasks'[Len(gd_tasks) + c]
          IN  t.region = gd_r /\ t.city = c /\ t.st = "scheduled"

C9_Step ==
    /\ gd_mapping' # gd_mapping => NoneInFlight
    /\ Len(gd_tasks') # Len(gd_tasks) =>
          /\ NoneInFlight
          /\ gd_pc = "loop"
          /\ LaunchedTogether

C9_OneRegionInFlight ==
    \A j, k \in 1..Len(gd_tasks) :
        (InFlight(gd_tasks[j]) /\ InFlight(gd_tasks[k])) =>
            gd_tasks[j].region = gd_tasks[k].region

\* C9: the requests of a region are launched together and joined before the
\* region's merge: no districts field is written while a request is in flight,
\* no request is launched while the merge of a region is under way or a
\* request of an earlier region is in flight, and the requests in flight at
\* any moment belong to one region.
C9_JoinBeforeMerge == [][C9_Step]_vars /\ []C9_OneRegionInFlight

\* the second region's two requests were in flight together, were joined, and
\* its merge has written the first city's districts
C9_Witness ==
    /\ gd_pc = "assign"
    /\ gd_r = 2
    /\ gd_c = 1
    /\ Len(gd_mapping[2].cities) = 2
    /\ gd_mapping[2].cities[1].districts # <<>>
    /\ gd_tasks[TaskOf(2, 2)].sid < gd_tasks[TaskOf(2, 1)].sid

Opened == {k \in 1..Len(gd_tasks) : gd_tasks[k].sid # 0}

\* C10 as stated: the requests of a batch share one session, which is
\* released only when all of them have completed; no request is issued
\* without an open session and none stays open after the batch.
C10_OneSessionPerBatch ==
    /\ \A j, k \in Opened :
          gd_tasks[j].region = gd_tasks[k].region => gd_tasks[j].sid = gd_tasks[k].sid
    /\ \A k \in Opened :
          ~gd_sessions[gd_tasks[k].sid] =>
              \A j \in RegionTasks(gd_tasks, gd_tasks[k].region) : ~InFlight(gd_tasks[j])
    /\ \A k \in 1..Len(gd_tasks) :
          gd_tasks[k].st = "posted" => gd_tasks[k].sid # 0 /\ gd_sessions[gd_tasks[k].sid]
    /\ gd_pc \in {"assign", "loop", "returned"} =>
          \A i \in 1..Len(gd_sessions) : ~gd_sessions[i]

\* C10, amended: every request opens a session of its own and is issued on
\* it while it is open; the session is released when that request completes,
\* fails or is cancelled; no session is open once a batch has been joined.
C10_SessionPerRequest ==
    /\ \A k \in 1..Len(gd_tasks) :
          LET t == gd_tasks[k]
          IN  /\ t.st = "scheduled" => t.sid = 0
              /\ t.st \in {"session", "posted"} => t.sid # 0 /\ gd_sessions[t.sid]
              /\ t.st \in {"done", "failed"} => t.sid # 0 /\ ~gd_sessions[t.sid]
              /\ t.st = "cancelled" => t.sid = 0 \/ ~gd_sessions[t.sid]
    /\ \A j, k \in Opened : gd_tasks[j].sid = gd_tasks[k].sid => j = k
    /\ Len(gd_sessions) = Cardinality(Opened)
    /\ gd_pc \in {"assign", "loop", "returned"} =>
          \A i \in 1..Len(gd_sessions) : ~gd_sessions[i]

\* one request of a batch has completed and released its session while
\* another request of the batch is in flight on its own open session
C10_Witness ==
    \E j, k \in 1..Len(gd_tasks) :
        /\ gd_tasks[j].region = gd_tasks[k].region
        /\ gd_tasks[j].st = "done"
        /\ ~gd_sessions[gd_tasks[j].sid]
        /\ gd_tasks[k].st = "posted"
        /\ gd_sessions[gd_tasks[k].sid]

\* get_and_merge_districts has not been called
GdIdle ==
    /\ gd_pc = "idle"
    /\ gd_mapping = <<>>
    /\ gd_r = 1
    /\ gd_c = 0
    /\ gd_tasks = <<>>
    /\ gd_sessions = <<>>
    /\ gd_merged = EmptyDict
    /\ gd_exc = "none"

----------------------------------------------------------------------------
(* save_to_excel(save_path, json_source) *)

\* widths are held in tenths, so that the 1.2 of line 143 is 12
Tenths(n) == 10 * n

CityNames == << <<"x">>, <<"y", "y">>, <<"z", "z", "z">>, <<"w">>, <<"v", "v">> >>

\* the district lists a city of the document may carry
DistrictLists ==
    {<<>>,
     << <<>> >>,
     << <<"a">> >>,
     << <<"b", "b">>, <<"a">> >>,
     << <<"a">>, <<"b", "b", "b">> >>,
     << <<>>, <<"a">>, <<"b", "b">> >>}

\* a document of the given region sizes: the n-th city of the document is
\* named CityNames[n] and has the identifier n
DocsOf(sizes, kind) ==
    {[r \in 1..Len(sizes) |->
        [region |-> RegionLabels[r],
         cities |-> [c \in 1..sizes[r] |->
                        [name |-> CityNames[SumSeq(SubSeq(sizes, 1, r - 1)) + c],
                         id |-> CityId(kind, SumSeq(SubSeq(sizes, 1, r - 1)) + c),
                         districts |-> ds[SumSeq(SubSeq(sizes, 1, r - 1)) + c]]]]] :
     ds \in [1..SumSeq(sizes) -> DistrictLists]}

Docs(kind) ==
    UNION {DocsOf(sizes, kind) : sizes \in UNION {Splits(n) : n \in 0..MaxDocCities}}

\* the content of a file: what json.dumps writes, what Workbook.save writes
JsonText(doc) == [format |-> "json", doc |-> doc, sheets |-> <<>>]

XlsxBytes(sheets) == [format |-> "xlsx", doc |-> <<>>, sheets |-> sheets]

EmptySheet(title) == [title |-> title, cells |-> EmptyDict, widths |-> EmptyDict]

SeInit ==
    /\ se_pc = "open"
    /\ se_save_path = "out.xlsx"
    /\ se_json_source = "in.json"
    /\ \E doc \in Docs("int") : fs = [path \in {"in.json"} |-> JsonText(doc)]
    /\ se_doc = <<>>
    /\ se_r = 1
    /\ se_sorted = <<>>
    /\ se_count = 1
    /\ se_d = 0
    /\ se_sheets = <<>>
    /\ se_lens = EmptyDict
    /\ se_citymax = 12

Letters ==
    <<"A", "B", "C", "D", "E", "F", "G", "H", "I", "J", "K", "L", "M",
      "N", "O", "P", "Q", "R", "S", "T", "U", "V", "W", "X", "Y", "Z">>

\* openpyxl.utils.get_column_letter, for the first 26 columns
get_column_letter(col_idx) == Letters[col_idx]

\* workbook.create_sheet(title, index)
InsertAt(sheets, index, sheet) ==
    SubSeq(sheets, 1, index) \o <<sheet>> \o SubSeq(sheets, index + 1, Len(sheets))

\* a sort that puts a city in front of the cities of equal district count
RECURSIVE InsertBeforeEquals(_, _)
InsertBeforeEquals(sorted, city) ==
    IF sorted = <<>> THEN <<city>>
    ELSE IF Len(Head(sorted).districts) > Len(city.districts)
    THEN <<Head(sorted)>> \o InsertBeforeEquals(Tail(sorted), city)
    ELSE <<city>> \o sorted

RECURSIVE SortedReversingTies(_)
SortedReversingTies(cities) ==
    IF cities = <<>> THEN <<>>
    ELSE InsertBeforeEquals(SortedReversingTies(SubSeq(cities, 1, Len(cities) - 1)),
                            cities[Len(cities)])

\* the place of a city in a list sorted by descending district count: behind
\* every city with at least as many districts
RECURSIVE InsertSorted(_, _)
InsertSorted(sorted, city) ==
    IF sorted = <<>> THEN <<city>>
    ELSE IF Len(Head(sorted).districts) >= Len(city.districts)
    THEN <<Head(sorted)>> \o InsertSorted(Tail(sorted), city)
    ELSE <<city>> \o sorted

\* line 146: sorted(cities, key=district count, reverse=True), a stable sort
RECURSIVE SortedCities(_)
SortedCities(cities) ==
    IF cities = <<>> THEN <<>>
    ELSE InsertSorted(SortedCities(SubSeq(cities, 1, Len(cities) - 1)),
                      cities[Len(cities)])

\* lines 134-138: the workbook, with the sheet Workbook() gives it, and the
\* document; open raises when the file is missing, json.loads when it holds
\* no JSON text
SeOpen ==
    /\ se_pc = "open"
    /\ IF se_json_source \in DOMAIN fs /\ fs[se_json_source].format = "json"
       THEN /\ se_doc' = fs[se_json_source].doc
            /\ se_pc' = "region"
       ELSE /\ se_pc' = "raised"
            /\ UNCHANGED se_doc
    /\ se_sheets' = <<EmptySheet("Sheet")>>
    /\ UNCHANGED <<se_save_path, se_json_source, se_r, se_sorted, se_count, se_d, se_lens,
                   se_citymax, fs>>
    /\ UNCHANGED se_others

\* lines 141-146: the sheet of the next region
SeSheet ==
    /\ se_pc = "region"
    /\ se_r <= Len(se_doc)
    /\ se_sheets' =
          InsertAt(se_sheets, se_r - 1,
                   [EmptySheet(se_doc[se_r].region) EXCEPT
                       !.widths = DictSet(@, get_column_letter(1), 12)])
    /\ se_count' = 1
    /\ se_citymax' = 12
    /\ se_lens' = EmptyDict
    /\ se_sorted' = SortedCities(se_doc[se_r].cities)
    /\ se_pc' = "city"
    /\ UNCHANGED <<se_save_path, se_json_source, se_doc, se_r, se_d, fs>>
    /\ UNCHANGED se_others

\* sheet.cell(row, column, value)
WriteCell(sheet, row, column, value) ==
    [sheet EXCEPT !.cells = DictSet(@, <<row, column>>, value)]

SetWidth(sheet, letter, width) == [sheet EXCEPT !.widths = DictSet(@, letter, width)]

\* line 150: round(len(name) * 1.2)
CityLen(name) == (12 * Len(name) + 5) \div 10

\* lines 147-153: the name cell of the next city and the width of column 1
SeCity ==
    /\ se_pc = "city"
    /\ se_count <= Len(se_sorted)
    /\ LET city == se_sorted[se_count]
           city_len == Tenths(CityLen(city.name))
           named == WriteCell(se_sheets[se_r], se_count, 1, city.name)
       IN  IF city_len > se_citymax
           THEN /\ se_citymax' = city_len
                /\ se_sheets' = [se_sheets EXCEPT
                                    ![se_r] = SetWidth(named, get_column_letter(1), city_len)]
           ELSE /\ se_sheets' = [se_sheets EXCEPT ![se_r] = named]
                /\ UNCHANGED se_citymax
    /\ se_d' = 0
    /\ se_pc' = "district"
    /\ UNCHANGED <<se_save_path, se_json_source, se_doc, se_r, se_sorted, se_count, se_lens, fs>>
    /\ UNCHANGED se_others

\* line 160: district_column_lens.get(col_letter, 0) or district_len
ColMaxLen(lens, col_letter, district_len) ==
    IF DictGet(lens, col_letter, 0) # 0
    THEN DictGet(lens, col_letter, 0)
    ELSE district_len

\* line 161
Widens(lens, col_letter, district_len) ==
    \/ district_len > ColMaxLen(lens, col_letter, district_len)
    \/ col_letter \notin DOMAIN lens

\* lines 155-163: one district cell and the width of its column
SeDistrict ==
    /\ se_pc = "district"
    /\ se_d < Len(se_sorted[se_count].districts)
    /\ LET col_idx == se_d + 2
           district == se_sorted[se_count].districts[se_d + 1]
           col_letter == get_column_letter(col_idx)
           district_len == Len(district)
           written == WriteCell(se_sheets[se_r], se_count, col_idx, district)
       IN  IF Widens(se_lens, col_letter, district_len)
           THEN /\ se_sheets' = [se_sheets EXCEPT
                                    ![se_r] = SetWidth(written, col_letter,
                                                       Tenths(district_len))]
                /\ se_lens' = DictSet(se_lens, col_letter, district_len)
           ELSE /\ se_sheets' = [se_sheets EXCEPT ![se_r] = written]
                /\ UNCHANGED se_lens
    /\ se_d' = se_d + 1
    /\ UNCHANGED <<se_pc, se_save_path, se_json_source, se_doc, se_r, se_sorted, se_count,
                   se_citymax, fs>>
    /\ UNCHANGED se_others

\* line 164
SeNextRow ==
    /\ se_pc = "district"
    /\ se_d = Len(se_sorted[se_count].districts)
    /\ se_count' = se_count + 1
    /\ se_pc' = "city"
    /\ UNCHANGED <<se_save_path, se_json_source, se_doc, se_r, se_sorted, se_d, se_sheets,
                   se_lens, se_citymax, fs>>
    /\ UNCHANGED se_others

\* line 140: the cities of the region are exhausted
SeNextRegion ==
    /\ se_pc = "city"
    /\ se_count > Len(se_sorted)
    /\ se_r' = se_r + 1
    /\ se_pc' = "region"
    /\ UNCHANGED <<se_save_path, se_json_source, se_doc, se_sorted, se_count, se_d, se_sheets,
                   se_lens, se_citymax, fs>>
    /\ UNCHANGED se_others

\* writing a file creates it or replaces its content
WriteFile(files, path, content) == DictSet(files, path, content)

\* line 166: workbook.save(filename=save_path)
SeSave ==
    /\ se_pc = "region"
    /\ se_r > Len(se_doc)
    /\ fs' = WriteFile(fs, se_save_path, XlsxBytes(se_sheets))
    /\ se_pc' = "saved"
    /\ UNCHANGED <<se_save_path, se_json_source, se_doc, se_r, se_sorted, se_count, se_d,
                   se_sheets, se_lens, se_citymax>>
    /\ UNCHANGED se_others

SeNext == SeOpen \/ SeSheet \/ SeCity \/ SeDistrict \/ SeNextRow \/ SeNextRegion \/ SeSave

\* the sheet of region r has been written in full
SheetWritten(r) ==
    /\ se_pc \notin {"idle", "open", "raised"}
    /\ r \in 1..Len(se_doc)
    /\ se_r > r \/ se_pc = "saved"

\* the row of the i-th stored city under descending district count, cities
\* of equal count in stored order
RowOf(cities, i) ==
    1 + Cardinality({j \in 1..Len(cities) :
                        Len(cities[j].districts) > Len(cities[i].districts)})
      + Cardinality({j \in 1..(i - 1) :
                        Len(cities[j].districts) = Len(cities[i].districts)})

\* C7: in a region's sheet, rows 1..k hold the region's k cities by
\* descending district count, equal counts in stored order; a row holds the
\* city's name in column 1 and its i-th district in column i+1, and nothing
\* else is written.
C7_SheetLayout ==
    \A r \in 1..Len(se_doc) :
        SheetWritten(r) =>
            LET cities == se_doc[r].cities
                sheet == se_sheets[r]
            IN  /\ sheet.title = se_doc[r].region
                /\ DOMAIN sheet.cells =
                      UNION {{<<RowOf(cities, i), col>> :
                                col \in 1..(Len(cities[i].districts) + 1)} :
                             i \in 1..Len(cities)}
                /\ \A i \in 1..Len(cities) :
                      /\ sheet.cells[<<RowOf(cities, i), 1>>] = cities[i].name
                      /\ \A d \in 1..Len(cities[i].districts) :
                            sheet.cells[<<RowOf(cities, i), d + 1>>] = cities[i].districts[d]

\* a saved sheet of three cities: the first stored has no district and ends
\* in row 3, the other two have one district each and keep their order
C7_Witness ==
    /\ se_pc = "saved"
    /\ Len(se_doc) = 1
    /\ Len(se_doc[1].cities) = 3
    /\ Len(se_doc[1].cities[1].districts) = 0
    /\ Len(se_doc[1].cities[2].districts) = 1
    /\ Len(se_doc[1].cities[3].districts) = 1
    /\ se_sheets[1].cells[<<3, 1>>] = se_doc[1].cities[1].name
    /\ <<3, 2>> \notin DOMAIN se_sheets[1].cells

\* the lengths of the district names the region's cities carry at position d
LensAt(cities, d) ==
    {Len(cities[i].districts[d]) : i \in {j \in 1..Len(cities) : Len(cities[j].districts) >= d}}

MaxOf(S) == CHOOSE m \in S : \A n \in S : n <= m

\* C8: once a region's sheet is written, the width of every district column
\* that received a cell is the greatest length of the names placed in it,
\* names of length 0 included.
C8_WidthIsMaxLength ==
    \A r \in 1..Len(se_doc) :
        SheetWritten(r) =>
            \A d \in 1..Len(Letters) - 1 :
                LensAt(se_doc[r].cities, d) # {} =>
                    /\ get_column_letter(d + 1) \in DOMAIN se_sheets[r].widths
                    /\ se_sheets[r].widths[get_column_letter(d + 1)]
                          = Tenths(MaxOf(LensAt(se_doc[r].cities, d)))

\* save_to_excel has not been called
SeIdle ==
    /\ se_pc = "idle"
    /\ se_save_path = ""
    /\ se_json_source = ""
    /\ se_doc = <<>>
    /\ se_r = 1
    /\ se_sorted = <<>>
    /\ se_count = 1
    /\ se_d = 0
    /\ se_sheets = <<>>
    /\ se_lens = EmptyDict
    /\ se_citymax = 12

----------------------------------------------------------------------------
(* main() *)

RESULTS_JSON == "region_cities_districts.json"

RESULTS_EXCEL == "region_cities_districts.json"

AllEmpty(doc) ==
    \A r \in 1..Len(doc) : \A c \in 1..Len(doc[r].cities) : doc[r].cities[c].districts = <<>>

\* what get_and_merge_districts hands back to main: cities whose identifier
\* is an int come back with no districts (the lookup of line 178 misses the
\* str keys of line 93)
MainResults == Docs("str") \cup {doc \in Docs("int") : AllEmpty(doc)}

\* the directory before the run: empty, or holding the JSON of an earlier run
MnInit ==
    /\ mn_pc = "start"
    /\ mn_res_data = <<>>
    /\ fs \in {EmptyDict, [path \in {RESULTS_JSON} |-> JsonText(<<>>)]}

\* lines 184-187: the catalog, the cities and the districts
MnFetch ==
    /\ mn_pc = "start"
    /\ mn_res_data' \in MainResults
    /\ mn_pc' = "fetched"
    /\ UNCHANGED <<fs, se_vars>>
    /\ UNCHANGED mn_others

\* lines 184-187: one of the three stages raises, and main with it
MnAbort ==
    /\ mn_pc = "start"
    /\ mn_pc' = "raised"
    /\ UNCHANGED <<mn_res_data, fs, se_vars>>
    /\ UNCHANGED mn_others

\* lines 189-193
MnWriteJson ==
    /\ mn_pc = "fetched"
    /\ fs' = WriteFile(fs, RESULTS_JSON, JsonText(mn_res_data))
    /\ mn_pc' = "written"
    /\ UNCHANGED <<mn_res_data, se_vars>>
    /\ UNCHANGED mn_others

\* lines 195-196: the call save_to_excel(excel_results_path, json_results_path)
MnCallSave ==
    /\ mn_pc = "written"
    /\ se_pc' = "open"
    /\ se_save_path' = RESULTS_EXCEL
    /\ se_json_source' = RESULTS_JSON
    /\ mn_pc' = "saving"
    /\ UNCHANGED <<mn_res_data, fs, se_doc, se_r, se_sorted, se_count, se_d, se_sheets,
                   se_lens, se_citymax>>
    /\ UNCHANGED mn_others

\* line 196: save_to_excel returns, or raises, and main with it
MnDone ==
    /\ mn_pc = "saving"
    /\ se_pc \in {"saved", "raised"}
    /\ mn_pc' = IF se_pc = "saved" THEN "done" ELSE "raised"
    /\ UNCHANGED <<mn_res_data, fs, se_vars>>
    /\ UNCHANGED mn_others

MnNext ==
    \/ MnFetch
    \/ MnAbort
    \/ MnWriteJson
    \/ MnCallSave
    \/ SeOpen
    \/ SeSheet
    \/ SeCity
    \/ SeDistrict
    \/ SeNextRow
    \/ SeNextRegion
    \/ SeSave
    \/ MnDone

\* C2: after a run of main that completes, the directory holds the JSON
\* document of phase 1, still the serialized mapping, and a spreadsheet
\* document beside it.
C2_TwoOutputs ==
    mn_pc = "done" =>
        /\ RESULTS_JSON \in DOMAIN fs
        /\ fs[RESULTS_JSON] = JsonText(mn_res_data)
        /\ \E path \in DOMAIN fs : fs[path].format = "xlsx"

\* main has not been called
MnIdle ==
    /\ mn_pc = "idle"
    /\ mn_res_data = <<>>

----------------------------------------------------------------------------
(* Specifications, one per operation *)

InitRegions ==
    /\ GrInit
    /\ GcIdle
    /\ GdIdle
    /\ SeIdle
    /\ MnIdle
    /\ fs = EmptyDict

SpecRegions == InitRegions /\ [][GrNext]_vars

InitCities ==
    /\ GcInit
    /\ GrIdle
    /\ GdIdle
    /\ SeIdle
    /\ MnIdle
    /\ fs = EmptyDict

SpecCities == InitCities /\ [][GcNext]_vars

InitDistricts ==
    /\ GdInit
    /\ GrIdle
    /\ GcIdle
    /\ SeIdle
    /\ MnIdle
    /\ fs = EmptyDict

SpecDistricts == InitDistricts /\ [][GdNext]_vars

InitExcel ==
    /\ SeInit
    /\ GrIdle
    /\ GcIdle
    /\ GdIdle
    /\ MnIdle

SpecExcel == InitExcel /\ [][SeNext]_vars

InitMain ==
    /\ MnInit
    /\ GrIdle
    /\ GcIdle
    /\ GdIdle
    /\ SeIdle

SpecMain == InitMain /\ [][MnNext]_vars

====
